---- MODULE Spec2Model ----
(***************************************************************************)
(* Model of llmalloc/src/platform/linux.rs: the Linux platform layer of    *)
(* the allocator.                                                          *)
(*                                                                         *)
(*   - LLThreadLocal: one slot, its atomic key register and the threads    *)
(*     that call get() and set() on it, one step per atomic access or OS   *)
(*     call (specifications TLSpec and TLFairSpec);                        *)
(*   - LLPlatform::allocate / deallocate over mmap / munmap (MemSpec);     *)
(*   - LLPlatform::current_node and select_node (NumaSpec).                *)
(*                                                                         *)
(* A failed assert! panics; the model records it as the termination of the *)
(* process (terminated), after which no operation takes a step.            *)
(***************************************************************************)
EXTENDS Integers, Naturals, Sequences, FiniteSets, TLC

(***************************************************************************)
(* Bounds of the model.                                                    *)
(***************************************************************************)
\* Number of threads that use the slot.
NThreads == 2
\* Non-null pointer values a thread may store are 1..MaxVal.
MaxVal == 1
\* Thread-local keys the rest of the process created before the slot's
\* first use: between 0 and MaxForeign of them.
MaxForeign == 1
\* allocate() is asked for up to MaxPages huge pages, and the address space
\* the OS maps into is MaxPages + 1 huge pages long.
MaxPages == 2
\* The NUMA nodes of the machine are 0..MaxNode.
MaxNode == 2

Threads == 1..NThreads
NULL == 0
Pointers == 0..MaxVal

\* The OS hands out keys 0, 1, ...; KeysMax is where it runs out (EAGAIN).
KeysMax == MaxForeign + NThreads + 1

(***************************************************************************)
(* Program constants.                                                      *)
(***************************************************************************)
UNINITIALIZED == -1
UNDER_INITIALIZATION == -2

\* `key as u32` of an i64: the value modulo the width of u32.  TLC integers
\* are 32-bit, so the model's u32 is 16 bits wide; every key the OS hands
\* out is below KeysMax, far below the wrapped sentinels.
U32Modulus == 2^16

\* Sizes, alignments and addresses are counted in KiB (TLC integers are
\* 32-bit); every quantity the code compares is a multiple of 1 KiB or
\* behaves like one.
KiB == 2^10
LARGE_PAGE_SIZE == (2 * 1024 * 1024) \div KiB
HUGE_PAGE_SIZE == (1024 * 1024 * 1024) \div KiB

\* mmap's failure value, !0 as a pointer: all bits set, (void *) -1.
FAILURE == -1

VARIABLES
    \* ---- LLThreadLocal ----
    key,         \* self.key, the atomic register: -1, -2 or a key >= 0
    pc,          \* pc[t]: where thread t is in get() / set()
    lkey,        \* lkey[t]: the local `key` of the function t is running
    ret,         \* ret[t]: <<k, p>> once t's latest get() read k from the
                 \* register and returned p; <<>> from t's next call on
    lastSet,     \* lastSet[t]: <<v>> once t's latest set(v) returned; <<>>
                 \* before t's first set() and while t is inside set()
    \* ---- the OS thread-local mechanism ----
    nKeys,       \* keys 0..nKeys-1 exist
    tls,         \* tls[t][k]: the pointer thread t stored under key k
    createCalls, \* pthread_key_create calls made for the slot
    createdKeys, \* the keys those calls returned, in order
    storeKeys,   \* <<t, k>>: t passed key k to pthread_setspecific
    \* ---- LLPlatform and the OS mappings ----
    mapped,      \* regions [addr, len] the OS has mapped for allocate()
    held,        \* regions allocate() returned that were not yet deallocated
    lastCall,    \* what the latest allocate() / deallocate() did
    \* ---- LLPlatform::current_node and the NUMA topology ----
    dist,        \* dist[<<l, r>>], l < r: the distance the OS reports
    numaPc,      \* "idle", or "scan" inside select_node's loop
    original,    \* select_node's `original`, the node getcpu detected
    current,     \* select_node's loop variable
    queries,     \* the numa_distance calls of the latest current_node()
    selected,    \* <<r>> once the latest current_node() returned r
    \* ---- the process ----
    terminated   \* a failed assert! ended the process

tlVars == <<key, pc, lkey, ret, lastSet, nKeys, tls, createCalls,
            createdKeys, storeKeys>>
memVars == <<mapped, held, lastCall>>
numaVars == <<dist, numaPc, original, current, queries, selected>>
vars == <<key, pc, lkey, ret, lastSet, nKeys, tls, createCalls,
          createdKeys, storeKeys, mapped, held, lastCall,
          dist, numaPc, original, current, queries, selected, terminated>>

(***************************************************************************)
(* The OS thread-local primitives.                                         *)
(***************************************************************************)
\* pthread_getspecific(k): the calling thread's pointer under k, or null
\* (also for a k that is no key).
pthread_getspecific(t, k) ==
    IF k \in 0..(nKeys - 1) THEN tls[t][k] ELSE NULL

\* A cast that maps the negative sentinels to key 0.
AsU32Clamped(k) == IF k < 0 THEN 0 ELSE k

\* The cast `key as u32` of an i64.
AsU32(k) == k % U32Modulus

(***************************************************************************)
(* LLThreadLocal::new and the state of the process before the first call.  *)
(***************************************************************************)
InitTL ==
    /\ key = UNINITIALIZED
    /\ pc = [t \in Threads |-> "idle"]
    /\ lkey = [t \in Threads |-> 0]
    /\ ret = [t \in Threads |-> <<>>]
    /\ lastSet = [t \in Threads |-> <<>>]
    /\ nKeys \in 0..MaxForeign
    \* under each foreign key every thread holds a live (non-null) pointer
    /\ tls = [t \in Threads |->
                [k \in 0..(KeysMax - 1) |-> IF k < nKeys THEN 1 ELSE NULL]]
    /\ createCalls = 0
    /\ createdKeys = <<>>
    /\ storeKeys = {}

\* The record of a call of LLPlatform, before any call was made.
NoCall == [op |-> "none", size |-> 0, align |-> 0, addr |-> NULL,
           mmapCalled |-> FALSE, mmapLen |-> 0, osResult |-> 0,
           wasHeld |-> FALSE, returned |-> FALSE, ret |-> NULL]

InitMem ==
    /\ mapped = {}
    /\ held = {}
    /\ lastCall = NoCall

Nodes == 0..MaxNode

\* The distances the OS may report between two different nodes (a node is
\* at 10 from itself): 11 and 21 were observed, multiples of 10 are usual.
Distances == {11, 20, 21}
DistanceTables == [{p \in Nodes \X Nodes : p[1] < p[2]} -> Distances]

\* No call of current_node() was made yet.
InitNumaCall ==
    /\ numaPc = "idle"
    /\ original = 0
    /\ current = 0
    /\ queries = <<>>
    /\ selected = <<>>

\* The process on a machine whose nodes are all far from each other; the
\* thread-local slot and the mappings do not depend on the topology.
Init ==
    /\ InitTL
    /\ InitMem
    /\ dist = [p \in {q \in Nodes \X Nodes : q[1] < q[2]} |-> 21]
    /\ InitNumaCall
    /\ terminated = FALSE

\* The process on a machine of any topology.
NumaInit ==
    /\ InitTL
    /\ InitMem
    /\ dist \in DistanceTables
    /\ InitNumaCall
    /\ terminated = FALSE

(***************************************************************************)
(* ThreadLocal::set, with get_key, initialize and create_key inlined.      *)
(***************************************************************************)
\* set(value) is called; get_key loads the register and returns it when it
\* is a key, and calls initialize() when it is not.  `value` plays no part
\* before pthread_setspecific, and the model draws it there.
GetKey(t) ==
    /\ ~terminated
    /\ pc[t] = "idle"
    /\ lkey' = [lkey EXCEPT ![t] = IF key >= 0 THEN AsU32(key) ELSE key]
    /\ pc' = [pc EXCEPT ![t] = IF key >= 0 THEN "setspecific" ELSE "init_load"]
    /\ ret' = [ret EXCEPT ![t] = <<>>]
    /\ lastSet' = [lastSet EXCEPT ![t] = <<>>]
    /\ UNCHANGED <<key, nKeys, tls, createCalls, createdKeys, storeKeys,
                   memVars, numaVars, terminated>>

\* initialize: let mut key = self.key.load(Relaxed).
InitializeLoad(t) ==
    /\ ~terminated
    /\ pc[t] = "init_load"
    /\ lkey' = [lkey EXCEPT ![t] = key]
    /\ pc' = [pc EXCEPT ![t] = "init_cas"]
    /\ UNCHANGED <<key, ret, lastSet, nKeys, tls, createCalls,
                   createdKeys, storeKeys, memVars, numaVars, terminated>>

\* A compare-and-swap that compares the local copy, not the register.
CasFromLocal(t) ==
    /\ ~terminated
    /\ pc[t] = "init_cas"
    /\ IF lkey[t] = UNINITIALIZED
       THEN /\ key' = UNDER_INITIALIZATION
            /\ pc' = [pc EXCEPT ![t] = "create_key"]
       ELSE /\ key' = key
            /\ pc' = [pc EXCEPT ![t] = "init_loop"]
    /\ UNCHANGED <<lkey, ret, lastSet, nKeys, tls, createCalls,
                   createdKeys, storeKeys, memVars, numaVars, terminated>>

\* An initialize whose store follows the `if`, so that the losers of the
\* compare-and-swap store their local copy too.
CasLoserStores(t) ==
    /\ ~terminated
    /\ pc[t] = "init_cas"
    /\ IF key = UNINITIALIZED
       THEN /\ key' = UNDER_INITIALIZATION
            /\ pc' = [pc EXCEPT ![t] = "create_key"]
       ELSE /\ key' = key
            /\ pc' = [pc EXCEPT ![t] = "init_store"]
    /\ UNCHANGED <<lkey, ret, lastSet, nKeys, tls, createCalls,
                   createdKeys, storeKeys, memVars, numaVars, terminated>>

\* initialize: compare_and_swap(UNINITIALIZED, UNDER_INITIALIZATION): the
\* thread that finds UNINITIALIZED swaps and goes on to create the key, any
\* other thread goes to the loop with the value it loaded before.
InitializeCas(t) ==
    /\ ~terminated
    /\ pc[t] = "init_cas"
    /\ IF key = UNINITIALIZED
       THEN /\ key' = UNDER_INITIALIZATION
            /\ pc' = [pc EXCEPT ![t] = "create_key"]
       ELSE /\ key' = key
            /\ pc' = [pc EXCEPT ![t] = "init_loop"]
    /\ UNCHANGED <<lkey, ret, lastSet, nKeys, tls, createCalls,
                   createdKeys, storeKeys, memVars, numaVars, terminated>>

\* create_key: pthread_key_create succeeds and returns the next free key.
CreateKeyOk(t) ==
    /\ ~terminated
    /\ pc[t] = "create_key"
    /\ nKeys < KeysMax
    /\ nKeys' = nKeys + 1
    /\ tls' = [u \in Threads |-> [tls[u] EXCEPT ![nKeys] = NULL]]
    /\ createCalls' = createCalls + 1
    /\ createdKeys' = Append(createdKeys, nKeys)
    /\ lkey' = [lkey EXCEPT ![t] = nKeys]
    /\ pc' = [pc EXCEPT ![t] = "init_store"]
    /\ UNCHANGED <<key, ret, lastSet, storeKeys, memVars, numaVars, terminated>>

\* A create_key that does not check the result: after a failure it returns
\* the 0 its local `key` was initialized with.
CreateKeyUnchecked(t) ==
    /\ ~terminated
    /\ pc[t] = "create_key"
    /\ createCalls' = createCalls + 1
    /\ lkey' = [lkey EXCEPT ![t] = 0]
    /\ pc' = [pc EXCEPT ![t] = "init_store"]
    /\ UNCHANGED <<key, ret, lastSet, nKeys, tls, createdKeys, storeKeys,
                   memVars, numaVars, terminated>>

\* create_key: pthread_key_create fails (EAGAIN, ENOMEM); the assert! ends
\* the process.
CreateKeyFail(t) ==
    /\ ~terminated
    /\ pc[t] = "create_key"
    /\ createCalls' = createCalls + 1
    /\ terminated' = TRUE
    /\ UNCHANGED <<key, pc, lkey, ret, lastSet, nKeys, tls,
                   createdKeys, storeKeys, memVars, numaVars>>

\* initialize: self.key.store(key, Relaxed).
InitializeStore(t) ==
    /\ ~terminated
    /\ pc[t] = "init_store"
    /\ key' = lkey[t]
    /\ pc' = [pc EXCEPT ![t] = "init_loop"]
    /\ UNCHANGED <<lkey, ret, lastSet, nKeys, tls, createCalls,
                   createdKeys, storeKeys, memVars, numaVars, terminated>>

\* A loop that yields without reading the register again.
LoopWithoutReload(t) ==
    /\ ~terminated
    /\ pc[t] = "init_loop"
    /\ IF lkey[t] < 0
       THEN UNCHANGED <<lkey, pc>>
       ELSE /\ lkey' = [lkey EXCEPT ![t] = AsU32(lkey[t])]
            /\ pc' = [pc EXCEPT ![t] = "setspecific"]
    /\ UNCHANGED <<key, ret, lastSet, nKeys, tls, createCalls,
                   createdKeys, storeKeys, memVars, numaVars, terminated>>

\* A loop that waits only while it sees UNDER_INITIALIZATION.
LoopWhileUnderInit(t) ==
    /\ ~terminated
    /\ pc[t] = "init_loop"
    /\ IF lkey[t] = UNDER_INITIALIZATION
       THEN /\ lkey' = [lkey EXCEPT ![t] = key]
            /\ pc' = pc
       ELSE /\ lkey' = [lkey EXCEPT ![t] = AsU32(lkey[t])]
            /\ pc' = [pc EXCEPT ![t] = "setspecific"]
    /\ UNCHANGED <<key, ret, lastSet, nKeys, tls, createCalls,
                   createdKeys, storeKeys, memVars, numaVars, terminated>>

\* initialize: while key < 0 { pthread_yield(); key = self.key.load() },
\* one iteration per step, then return key as u32 to set().
InitializeLoop(t) ==
    /\ ~terminated
    /\ pc[t] = "init_loop"
    /\ IF lkey[t] < 0
       THEN /\ lkey' = [lkey EXCEPT ![t] = key]
            /\ pc' = pc
       ELSE /\ lkey' = [lkey EXCEPT ![t] = AsU32(lkey[t])]
            /\ pc' = [pc EXCEPT ![t] = "setspecific"]
    /\ UNCHANGED <<key, ret, lastSet, nKeys, tls, createCalls,
                   createdKeys, storeKeys, memVars, numaVars, terminated>>

\* A store that reports success without keeping the value.
SetSpecificDropped(t) ==
    /\ ~terminated
    /\ pc[t] = "setspecific"
    /\ lkey[t] \in 0..(nKeys - 1)
    /\ \E value \in Pointers :
          lastSet' = [lastSet EXCEPT ![t] = <<value>>]
    /\ storeKeys' = storeKeys \cup {<<t, lkey[t]>>}
    /\ pc' = [pc EXCEPT ![t] = "idle"]
    /\ lkey' = [lkey EXCEPT ![t] = 0]
    /\ UNCHANGED <<key, ret, nKeys, tls, createCalls, createdKeys, memVars,
                   numaVars, terminated>>

\* set: pthread_setspecific(key, value) succeeds and set(value) returns.
SetSpecificOk(t) ==
    /\ ~terminated
    /\ pc[t] = "setspecific"
    /\ lkey[t] \in 0..(nKeys - 1)
    /\ \E value \in Pointers :
          /\ tls' = [tls EXCEPT ![t][lkey[t]] = value]
          /\ lastSet' = [lastSet EXCEPT ![t] = <<value>>]
    /\ storeKeys' = storeKeys \cup {<<t, lkey[t]>>}
    /\ pc' = [pc EXCEPT ![t] = "idle"]
    /\ lkey' = [lkey EXCEPT ![t] = 0]
    /\ UNCHANGED <<key, ret, nKeys, createCalls, createdKeys, memVars,
                   numaVars, terminated>>

\* set: pthread_setspecific fails (ENOMEM, or EINVAL for a value that is no
\* key); the assert! ends the process.
SetSpecificFail(t) ==
    /\ ~terminated
    /\ pc[t] = "setspecific"
    /\ storeKeys' = storeKeys \cup {<<t, lkey[t]>>}
    /\ terminated' = TRUE
    /\ UNCHANGED <<key, pc, lkey, ret, lastSet, nKeys, tls, createCalls,
                   createdKeys, memVars, numaVars>>

(***************************************************************************)
(* ThreadLocal::get.                                                       *)
(***************************************************************************)
\* get() is called: let key = self.key.load(Relaxed).
GetLoad(t) ==
    /\ ~terminated
    /\ pc[t] = "idle"
    /\ lkey' = [lkey EXCEPT ![t] = key]
    /\ pc' = [pc EXCEPT ![t] = "getspecific"]
    /\ ret' = [ret EXCEPT ![t] = <<>>]
    /\ UNCHANGED <<key, lastSet, nKeys, tls, createCalls, createdKeys,
                   storeKeys, memVars, numaVars, terminated>>

\* A get() that creates the key when it finds none.
GetSpecificForcing(t) ==
    /\ ~terminated
    /\ pc[t] = "getspecific"
    /\ ret' = [ret EXCEPT ![t] =
                  <<lkey[t], pthread_getspecific(t, AsU32(lkey[t]))>>]
    /\ pc' = [pc EXCEPT ![t] = "idle"]
    /\ lkey' = [lkey EXCEPT ![t] = 0]
    /\ IF key = UNINITIALIZED /\ nKeys < KeysMax
       THEN /\ key' = nKeys
            /\ nKeys' = nKeys + 1
            /\ createCalls' = createCalls + 1
            /\ createdKeys' = Append(createdKeys, nKeys)
       ELSE UNCHANGED <<key, nKeys, createCalls, createdKeys>>
    /\ UNCHANGED <<lastSet, tls, storeKeys, memVars, numaVars, terminated>>

\* A get() that waits for the key while it reads UNDER_INITIALIZATION.
GetSpecificWaiting(t) ==
    /\ ~terminated
    /\ pc[t] = "getspecific"
    /\ IF lkey[t] = UNDER_INITIALIZATION
       THEN /\ lkey' = [lkey EXCEPT ![t] = key]
            /\ UNCHANGED <<ret, pc>>
       ELSE /\ ret' = [ret EXCEPT ![t] =
                         <<lkey[t], pthread_getspecific(t, AsU32(lkey[t]))>>]
            /\ pc' = [pc EXCEPT ![t] = "idle"]
            /\ lkey' = [lkey EXCEPT ![t] = 0]
    /\ UNCHANGED <<key, lastSet, nKeys, tls, createCalls, createdKeys,
                   storeKeys, memVars, numaVars, terminated>>

\* get: pthread_getspecific(key as u32), returned to the caller.
GetSpecific(t) ==
    /\ ~terminated
    /\ pc[t] = "getspecific"
    /\ ret' = [ret EXCEPT ![t] =
                  <<lkey[t], pthread_getspecific(t, AsU32(lkey[t]))>>]
    /\ pc' = [pc EXCEPT ![t] = "idle"]
    /\ lkey' = [lkey EXCEPT ![t] = 0]
    /\ UNCHANGED <<key, lastSet, nKeys, tls, createCalls, createdKeys,
                   storeKeys, memVars, numaVars, terminated>>

\* The steps of a thread inside a call, those fair scheduling lets it take.
Progress(t) ==
    \/ InitializeLoad(t)
    \/ InitializeCas(t)
    \/ CreateKeyOk(t)
    \/ CreateKeyFail(t)
    \/ InitializeStore(t)
    \/ InitializeLoop(t)
    \/ SetSpecificOk(t)
    \/ SetSpecificFail(t)
    \/ GetSpecific(t)

TLNext ==
    \E t \in Threads :
        \/ GetKey(t)
        \/ GetLoad(t)
        \/ Progress(t)

TLSpec == Init /\ [][TLNext]_vars

TLFairSpec == TLSpec /\ \A t \in Threads : WF_vars(Progress(t))

(***************************************************************************)
(* The OS mapping primitives, as LLPlatform uses them.                     *)
(***************************************************************************)
\* The requests the allocator core may make: sizes that are and are not
\* multiples of the huge page size (0 among them), and power-of-two
\* alignments up to twice the huge page size.
Sizes == {n * HUGE_PAGE_SIZE + r : n \in 0..MaxPages, r \in {0, LARGE_PAGE_SIZE}}
Aligns == {1, LARGE_PAGE_SIZE, HUGE_PAGE_SIZE, 2 * HUGE_PAGE_SIZE}

\* The non-null addresses the OS may place a mapping at; the extern
\* declaration of mmap promises no alignment, the assert! of allocate checks it.
AddressSpace ==
    {n * HUGE_PAGE_SIZE + r : n \in 1..(MaxPages + 1), r \in {0, LARGE_PAGE_SIZE}}
AddressLimit == (2 * MaxPages + 2) * HUGE_PAGE_SIZE

Overlaps(addr, len, region) ==
    addr < region.addr + region.len /\ region.addr < addr + len

\* mmap(null, length, ...): FAILURE, or the address of a new mapping of
\* `length` bytes that overlaps no other; a length of 0 always fails (EINVAL).
mmap(length) ==
    IF length = 0
    THEN {FAILURE}
    ELSE {FAILURE} \cup
         {a \in AddressSpace :
             /\ a + length <= AddressLimit
             /\ \A region \in mapped : ~Overlaps(a, length, region)}

\* munmap(addr, length): -1 (EINVAL) for a length of 0 and for an address or
\* length that is not a multiple of the huge page size, 0 otherwise, also
\* when nothing is mapped there.
munmap(addr, length) ==
    IF length = 0 \/ addr % HUGE_PAGE_SIZE # 0 \/ length % HUGE_PAGE_SIZE # 0
    THEN -1
    ELSE 0

(***************************************************************************)
(* LLPlatform::allocate.                                                   *)
(***************************************************************************)
\* assert!(layout.size() % HUGE_PAGE_SIZE == 0)
SizeAssert(size) == size % HUGE_PAGE_SIZE = 0

\* An allocate that accepts every alignment.
AlignUnchecked(align) == TRUE

\* assert!(layout.align() <= HUGE_PAGE_SIZE.value())
AlignAssert(align) == align <= HUGE_PAGE_SIZE

\* A wrapper that hands mmap's result on as it is.
MmapUnconverted(result) == result

\* mmap_simplified: mmap's result, with FAILURE turned into null.
mmap_simplified(result) == IF result # FAILURE THEN result ELSE NULL

\* An allocate that does not check the candidate.
CandidateUnchecked(candidate) == TRUE

\* assert!(candidate as usize % HUGE_PAGE_SIZE == 0)
CandidateAssert(candidate) == candidate % HUGE_PAGE_SIZE = 0

\* allocate(layout): the two precondition asserts, mmap_simplified, the
\* alignment assert, and the candidate returned.
Allocate(size, align) ==
    /\ ~terminated
    /\ IF ~SizeAssert(size) \/ ~AlignAssert(align)
       THEN /\ terminated' = TRUE
            /\ lastCall' = [NoCall EXCEPT !.op = "allocate", !.size = size,
                                          !.align = align]
            /\ UNCHANGED <<mapped, held>>
       ELSE \E result \in mmap(size) :
              LET candidate == mmap_simplified(result)
                  call == [NoCall EXCEPT !.op = "allocate", !.size = size,
                                         !.align = align, !.mmapCalled = TRUE,
                                         !.mmapLen = size, !.osResult = result]
              IN  /\ mapped' = IF result # FAILURE
                               THEN mapped \cup {[addr |-> result, len |-> size]}
                               ELSE mapped
                  /\ IF CandidateAssert(candidate)
                     THEN /\ lastCall' = [call EXCEPT !.returned = TRUE,
                                                      !.ret = candidate]
                          /\ held' = IF candidate # NULL
                                     THEN held \cup {[addr |-> candidate,
                                                      len |-> size]}
                                     ELSE held
                          /\ UNCHANGED terminated
                     ELSE /\ lastCall' = call
                          /\ terminated' = TRUE
                          /\ UNCHANGED held
    /\ UNCHANGED <<tlVars, numaVars>>

(***************************************************************************)
(* LLPlatform::deallocate.                                                 *)
(***************************************************************************)
\* assert!(result != 0, "{}", result)
ResultAssert(result) == result # 0

\* What the allocator core may pass to deallocate: a region it holds, and,
\* when its bookkeeping is corrupted, a held region with a shifted pointer
\* or a zero length, or a region that was never mapped.
DeallocateRequests ==
    held
    \cup {[addr |-> r.addr + LARGE_PAGE_SIZE, len |-> r.len] : r \in held}
    \cup {[addr |-> r.addr, len |-> 0] : r \in held}
    \cup {r \in [addr : AddressSpace, len : {HUGE_PAGE_SIZE}] :
             /\ r.addr % HUGE_PAGE_SIZE = 0
             /\ \A region \in mapped : ~Overlaps(r.addr, r.len, region)}

\* deallocate(pointer, layout): munmap and the assert on its result.
Deallocate(pointer, size) ==
    /\ ~terminated
    /\ [addr |-> pointer, len |-> size] \in DeallocateRequests
    /\ LET result == munmap(pointer, size)
           region == [addr |-> pointer, len |-> size]
           call == [NoCall EXCEPT !.op = "deallocate", !.addr = pointer,
                                  !.size = size, !.osResult = result,
                                  !.wasHeld = (region \in held)]
       IN  /\ mapped' = IF result = 0 THEN mapped \ {region} ELSE mapped
           /\ IF ResultAssert(result)
              THEN /\ lastCall' = [call EXCEPT !.returned = TRUE]
                   /\ held' = held \ {region}
                   /\ UNCHANGED terminated
              ELSE /\ lastCall' = call
                   /\ terminated' = TRUE
                   /\ UNCHANGED held
    /\ UNCHANGED <<tlVars, numaVars>>

MemNext ==
    \/ \E size \in Sizes, align \in Aligns : Allocate(size, align)
    \/ \E pointer \in {r.addr : r \in DeallocateRequests},
          size \in {r.len : r \in DeallocateRequests} :
          Deallocate(pointer, size)

MemSpec == Init /\ [][MemNext]_vars

(***************************************************************************)
(* LLPlatform::current_node and select_node.                               *)
(***************************************************************************)
\* numa_distance(left, right): 10 from a node to itself, the table's entry
\* otherwise.
numa_distance(left, right) ==
    IF left = right
    THEN 10
    ELSE IF left < right THEN dist[<<left, right>>] ELSE dist[<<right, left>>]

\* A range that includes its upper end, 0..=original.
InRangeInclusive(c, d) == c <= d

\* for current in 0..original: whether the range still holds `current`.
InRange(c, d) == c < d

\* A test that leaves out the distance 11.
BelowThreshold(distance) == distance < 11

\* if numa_distance(current, original) <= 11
WithinThreshold(distance) == distance <= 11

\* current_node(): getcpu reports the node the thread runs on, and
\* select_node(node) starts its loop at 0.  Node numbers are far below
\* 2^31, so `original.value() as i32` keeps them.
CurrentNode(node) ==
    /\ ~terminated
    /\ numaPc = "idle"
    /\ original' = node
    /\ current' = 0
    /\ queries' = <<>>
    /\ selected' = <<>>
    /\ numaPc' = "scan"
    /\ UNCHANGED <<dist, tlVars, memVars, terminated>>

\* select_node: one iteration of the loop, the distance from `current` to
\* `original` is asked for and `current` is returned when it is near.
SelectNodeQuery ==
    /\ ~terminated
    /\ numaPc = "scan"
    /\ InRange(current, original)
    /\ queries' = Append(queries, <<current, original>>)
    /\ IF WithinThreshold(numa_distance(current, original))
       THEN /\ selected' = <<current>>
            /\ numaPc' = "idle"
            /\ UNCHANGED current
       ELSE /\ current' = current + 1
            /\ UNCHANGED <<selected, numaPc>>
    /\ UNCHANGED <<dist, original, tlVars, memVars, terminated>>

\* select_node: the range is exhausted, `original` is returned.
SelectNodeOriginal ==
    /\ ~terminated
    /\ numaPc = "scan"
    /\ ~InRange(current, original)
    /\ selected' = <<original>>
    /\ numaPc' = "idle"
    /\ UNCHANGED <<dist, original, current, queries, tlVars, memVars,
                   terminated>>

NumaNext ==
    \/ \E node \in Nodes : CurrentNode(node)
    \/ SelectNodeQuery
    \/ SelectNodeOriginal

NumaSpec == NumaInit /\ [][NumaNext]_vars

(***************************************************************************)
(* Properties of the thread-local slot.                                    *)
(***************************************************************************)
\* Thread t has not called set() on the slot so far.
NeverCalledSet(t) == lastSet[t] = <<>> /\ pc[t] \in {"idle", "getspecific"}

\* C1: however the set() calls interleave, pthread_key_create is called at
\* most once for the slot, and exactly once as soon as a thread has a key
\* to store under (so before any set() returns).
C1_ExactlyOneKeyCreation ==
    /\ createCalls <= 1
    /\ (storeKeys # {} \/ \E t \in Threads : pc[t] = "setspecific")
          => createCalls = 1

\* A thread that loaded UNINITIALIZED lost the compare-and-swap and waits in
\* the loop, and the key was created once and published.
C1_Witness ==
    /\ key >= 0
    /\ createCalls = 1
    /\ \E t \in Threads : pc[t] = "init_loop" /\ lkey[t] = UNINITIALIZED

\* C2: every key passed to pthread_setspecific, by any thread, is the one
\* key the slot's single completed pthread_key_create returned, which is
\* also what the register holds: it is non-negative and never the cast of
\* the UNINITIALIZED or UNDER_INITIALIZATION sentinel.
C2_StoreUsesTheCreatedKey ==
    \A t \in Threads :
        \A k \in {p[2] : p \in {q \in storeKeys : q[1] = t}}
                 \cup (IF pc[t] = "setspecific" THEN {lkey[t]} ELSE {}) :
            /\ Len(createdKeys) = 1
            /\ k = createdKeys[1]
            /\ k = key
            /\ k >= 0
            /\ k \notin {AsU32(UNINITIALIZED), AsU32(UNDER_INITIALIZATION)}

\* Two threads both stored, under the same key.
C2_Witness ==
    \E t, u \in Threads :
        /\ t # u
        /\ lastSet[t] # <<>>
        /\ lastSet[u] # <<>>
        /\ <<t, key>> \in storeKeys
        /\ <<u, key>> \in storeKeys

\* C3: under fair scheduling every set() a thread is inside eventually
\* returns, unless an OS failure ends the process first.
C3_SetReturns ==
    \A t \in Threads :
        (pc[t] \notin {"idle", "getspecific"}) ~> (pc[t] = "idle" \/ terminated)

\* A thread that lost the compare-and-swap spins while the winner has not
\* published the key yet.
C3_Witness ==
    /\ key = UNDER_INITIALIZATION
    /\ \E t, u \in Threads :
          /\ pc[t] = "init_loop"
          /\ lkey[t] < 0
          /\ pc[u] \in {"create_key", "init_store"}

\* C4: a get() of thread t that follows t's set(v), with no set() of t in
\* between, returns v, whatever the other threads do.
C4_GetReturnsLastSet ==
    \A t \in Threads :
        (ret[t] # <<>> /\ lastSet[t] # <<>>) => ret[t][2] = lastSet[t][1]

\* A thread got back the non-null value it set while another thread holds
\* a different value under the same key.
C4_Witness ==
    \E t, u \in Threads :
        /\ t # u
        /\ lastSet[t] # <<>>
        /\ lastSet[t][1] # NULL
        /\ ret[t] # <<>>
        /\ ret[t][2] = lastSet[t][1]
        /\ lastSet[u] # <<>>
        /\ lastSet[u] # lastSet[t]

\* C5: a get() of a thread that never called set() returns null, whatever
\* the register held when it was read and whatever other threads stored.
C5_GetWithoutSetReturnsNull ==
    \A t \in Threads :
        (NeverCalledSet(t) /\ ret[t] # <<>>) => ret[t][2] = NULL

\* A thread that never called set() read the published key and got null
\* while another thread holds a non-null value under that key.
C5_Witness ==
    \E t, u \in Threads :
        /\ t # u
        /\ NeverCalledSet(t)
        /\ ret[t] # <<>>
        /\ ret[t][1] >= 0
        /\ ret[t][2] = NULL
        /\ tls[u][ret[t][1]] # NULL

\* C6: a step of get() changes neither the register nor the keys the OS
\* holds, makes no pthread_key_create call and changes no stored value.
C6_GetHasNoSideEffects ==
    [][\A t \in Threads :
          (pc'[t] # pc[t] /\ "getspecific" \in {pc[t], pc'[t]})
             => UNCHANGED <<key, nKeys, tls, createCalls, createdKeys,
                            storeKeys>>]_vars

\* A get() read UNINITIALIZED and returned, and no key was created.
C6_Witness ==
    /\ key = UNINITIALIZED
    /\ createCalls = 0
    /\ \E t \in Threads : ret[t] # <<>> /\ ret[t][1] = UNINITIALIZED

(***************************************************************************)
(* Properties of allocate and deallocate.                                  *)
(***************************************************************************)
\* The latest call was an allocate whose size is a positive multiple of the
\* huge page size and whose alignment is at most the huge page size.
ValidAllocate ==
    /\ lastCall.op = "allocate"
    /\ lastCall.size > 0
    /\ lastCall.size % HUGE_PAGE_SIZE = 0
    /\ lastCall.align <= HUGE_PAGE_SIZE

\* C7: an allocate that meets its preconditions returns null or the address
\* of a mapping of exactly `size` bytes at a multiple of the huge page size;
\* when the OS maps at any other address, allocate does not return and the
\* process is terminated.
C7_AllocateReturnsAlignedOrNull ==
    ValidAllocate =>
        /\ lastCall.returned =>
              \/ lastCall.ret = NULL
              \/ /\ lastCall.ret % HUGE_PAGE_SIZE = 0
                 /\ [addr |-> lastCall.ret, len |-> lastCall.size] \in mapped
        /\ (lastCall.osResult # FAILURE /\ lastCall.osResult % HUGE_PAGE_SIZE # 0)
              => (~lastCall.returned /\ terminated)

\* allocate returned the address of a mapping of more than one huge page.
C7_Witness ==
    /\ ValidAllocate
    /\ lastCall.returned
    /\ lastCall.ret # NULL
    /\ lastCall.size > HUGE_PAGE_SIZE
    /\ ~terminated

\* C8: deallocate of a region that allocate returned and that was not yet
\* deallocated returns normally, without terminating the process, when
\* munmap reports success.
C8_DeallocateOfHeldRegionSucceeds ==
    (lastCall.op = "deallocate" /\ lastCall.wasHeld /\ lastCall.osResult = 0)
        => (lastCall.returned /\ ~terminated)

\* C9: when munmap reports failure, deallocate terminates the process and
\* does not return.
C9_FailedUnmapIsFatal ==
    (lastCall.op = "deallocate" /\ lastCall.osResult # 0)
        => (terminated /\ ~lastCall.returned)

\* C10: when mmap reports failure for a request that meets the
\* preconditions, allocate returns null and the process goes on.
C10_MapFailureReturnsNull ==
    (ValidAllocate /\ lastCall.osResult = FAILURE)
        => (lastCall.returned /\ lastCall.ret = NULL /\ ~terminated)

\* mmap failed for a valid request while the caller holds other regions.
C10_Witness ==
    /\ ValidAllocate
    /\ lastCall.mmapCalled
    /\ lastCall.osResult = FAILURE
    /\ lastCall.returned
    /\ held # {}

\* C11: an allocate whose size is no multiple of the huge page size, or
\* whose alignment is above the huge page size, terminates the process
\* without calling mmap and without returning.
C11_InvalidRequestIsFatal ==
    (/\ lastCall.op = "allocate"
     /\ \/ lastCall.size % HUGE_PAGE_SIZE # 0
        \/ lastCall.align > HUGE_PAGE_SIZE)
        => (terminated /\ ~lastCall.mmapCalled /\ ~lastCall.returned)

\* allocate was asked for a multiple of the huge page size at an alignment
\* above the huge page size while the caller holds a region: the process
\* ended, no mapping was added.
C11_Witness ==
    /\ lastCall.op = "allocate"
    /\ lastCall.size > 0
    /\ lastCall.size % HUGE_PAGE_SIZE = 0
    /\ lastCall.align > HUGE_PAGE_SIZE
    /\ terminated
    /\ held # {}
    /\ mapped = held

\* C12: an allocate of size 0 terminates the process without calling mmap.
C12_ZeroSizeIsFatal ==
    (lastCall.op = "allocate" /\ lastCall.size = 0)
        => (terminated /\ ~lastCall.mmapCalled /\ ~lastCall.returned)

(***************************************************************************)
(* Properties of current_node.                                             *)
(***************************************************************************)
\* The nodes below d that are at a distance of at most 11 from d.
NearNodes(d) == {c \in 0..(d - 1) : numa_distance(c, d) <= 11}

\* C13: current_node returns the smallest node below the detected node d
\* that is at a distance of at most 11 from d, and d when there is none.
C13_SmallestNearNode ==
    (numaPc = "idle" /\ selected # <<>>) =>
        selected[1] = IF NearNodes(original) = {}
                    THEN original
                    ELSE CHOOSE c \in NearNodes(original) :
                            \A e \in NearNodes(original) : c <= e

\* distance(0, 2) = 11, distance(1, 2) = 21: for the detected node 2,
\* node 0 is returned.
C13_Witness ==
    /\ numaPc = "idle"
    /\ original = 2
    /\ dist[<<0, 2>>] = 11
    /\ dist[<<1, 2>>] = 21
    /\ selected = <<0>>

\* C18: the node returned is the detected node d or a node below d at a
\* distance of at most 11 from it; the distances asked for are those of
\* (0, d), (1, d), ... in this order, all below d, none after the first
\* that is at most 11, and none at all for d = 0.
C18_ScanIsBoundedAndOrdered ==
    /\ \A i \in 1..Len(queries) :
          /\ queries[i] = <<i - 1, original>>
          /\ i - 1 < original
          /\ i < Len(queries) => numa_distance(i - 1, original) > 11
    /\ original = 0 => queries = <<>>
    /\ selected # <<>> =>
          /\ selected[1] <= original
          /\ selected[1] = original \/ numa_distance(selected[1], original) <= 11
          /\ selected[1] < original => Len(queries) = selected[1] + 1
          /\ numaPc = "idle"

\* Nodes 0 and 1 are both near node 2: node 0 was returned after one query,
\* and the distance of node 1 was not asked for.
C18_Witness ==
    /\ numaPc = "idle"
    /\ original = 2
    /\ dist[<<0, 2>>] = 11
    /\ dist[<<1, 2>>] = 11
    /\ selected = <<0>>
    /\ queries = << <<0, 2>> >>

(***************************************************************************)
(* Properties of the slot's initialization.                                *)
(***************************************************************************)
\* The threads between a successful compare-and-swap and the publishing
\* store.
Initializers == {t \in Threads : pc[t] \in {"create_key", "init_store"}}

\* C14: once pthread_key_create has failed for the slot, the process is
\* terminated, the register holds no key, no set() has returned or is
\* about to store, and pthread_setspecific was never called.
C14_KeyCreationFailureIsFatal ==
    createCalls > Len(createdKeys) =>
        /\ terminated
        /\ key = UNDER_INITIALIZATION
        /\ storeKeys = {}
        /\ \A t \in Threads : lastSet[t] = <<>> /\ pc[t] # "setspecific"

\* Key creation failed while another thread was waiting in the loop.
C14_Witness ==
    /\ createCalls = 1
    /\ createdKeys = <<>>
    /\ terminated
    /\ \E t, u \in Threads :
          /\ pc[t] = "create_key"
          /\ pc[u] = "init_loop"
          /\ lkey[u] < 0

\* C15: the register starts UNINITIALIZED and only ever changes from
\* UNINITIALIZED to UNDER_INITIALIZATION and from UNDER_INITIALIZATION to a
\* key >= 0; a key, once held, never changes.
C15_RegisterLifecycle ==
    /\ key = UNINITIALIZED
    /\ [][key' # key =>
            \/ key = UNINITIALIZED /\ key' = UNDER_INITIALIZATION
            \/ key = UNDER_INITIALIZATION /\ key' >= 0]_vars

\* After the key was published, one thread has read it in get() and
\* another has returned from set().
C15_Witness ==
    /\ key >= 0
    /\ \E t, u \in Threads :
          /\ t # u
          /\ ret[t] # <<>>
          /\ ret[t][1] = key
          /\ lastSet[u] # <<>>

\* C16: while the register holds UNDER_INITIALIZATION exactly one thread is
\* between its successful compare-and-swap and its store, and no thread is
\* there otherwise; the register is written only by a thread whose
\* compare-and-swap finds UNINITIALIZED and by that thread's store of the
\* key it created, and pthread_key_create is called only by that thread.
C16_SingleInitializer ==
    /\ [](IF key = UNDER_INITIALIZATION
          THEN Cardinality(Initializers) = 1
          ELSE Initializers = {})
    /\ [][key' # key =>
            \E t \in Threads :
               \/ /\ pc[t] = "init_cas"
                  /\ pc'[t] = "create_key"
                  /\ key = UNINITIALIZED
                  /\ key' = UNDER_INITIALIZATION
               \/ /\ pc[t] = "init_store"
                  /\ pc'[t] = "init_loop"
                  /\ Initializers = {t}
                  /\ key' = lkey[t]
                  /\ key' >= 0
                  /\ createdKeys = <<key'>>]_vars
    /\ [][createCalls' # createCalls =>
            \E t \in Threads : Initializers = {t} /\ pc[t] = "create_key"]_vars

\* The winner has created the key and not yet stored it, and a thread that
\* lost the compare-and-swap waits in the loop.
C16_Witness ==
    /\ key = UNDER_INITIALIZATION
    /\ \E t, u \in Threads :
          /\ pc[t] = "init_store"
          /\ pc[u] = "init_loop"
          /\ lkey[u] = UNINITIALIZED

\* C17: a get() that has read the register can always take its second step,
\* and that step is its last: it returns what pthread_getspecific gives for
\* the value read, without reading or writing the register again; for
\* UNDER_INITIALIZATION it returns null.
C17_GetNeverWaits ==
    /\ [](\A t \in Threads :
            /\ (pc[t] = "getspecific" /\ ~terminated) => ENABLED GetSpecific(t)
            /\ (ret[t] # <<>> /\ ret[t][1] = UNDER_INITIALIZATION)
                  => ret[t][2] = NULL)
    /\ [][\A t \in Threads :
            (/\ pc[t] = "getspecific"
             /\ <<pc[t], lkey[t], ret[t]>>' # <<pc[t], lkey[t], ret[t]>>)
               => /\ pc'[t] = "idle"
                  /\ ret'[t] # <<>>
                  /\ ret'[t][1] = lkey[t]
                  /\ key' = key]_vars

\* A get() returned null while the register still holds
\* UNDER_INITIALIZATION.
C17_Witness ==
    /\ key = UNDER_INITIALIZATION
    /\ ~terminated
    /\ \E t \in Threads :
          /\ ret[t] # <<>>
          /\ ret[t][1] = UNDER_INITIALIZATION
          /\ ret[t][2] = NULL
====
